---- MODULE Spec2Model ----
(***************************************************************************)
(* rdd: block-oriented copy utility.                                       *)
(*   src/src/config.rs     CopyConfig::from_args, parse_size               *)
(*   src/src/core/copy.rs  run_singlethreaded_copy                         *)
(*   src/src/main.rs       run                                             *)
(*                                                                         *)
(* 64-bit values (u64) are kept exact: a number is the little-endian       *)
(* sequence of its base-256 limbs without leading zero limbs, so a value   *)
(* fits u64 iff it has at most 8 limbs.  Text is a sequence of one         *)
(* character strings.                                                      *)
(***************************************************************************)
EXTENDS Integers, Sequences, FiniteSets, TLC

\* ------------------------------------------------------------------ bounds
MaxLen == 3        \* longest input file, in bytes
MaxBlock == 2      \* largest block size the copy runs with
MaxCount == 2      \* largest --count
MaxDigits == 2     \* longest enumerated digit run of a size string
MaxSuffix == 2     \* longest enumerated suffix of a size string

\* ------------------------------------------------------- exact arithmetic
Base == 256
U64Bits == 64

RECURSIVE Norm(_)
Norm(a) ==
    IF a = <<>> THEN <<>>
    ELSE IF a[Len(a)] = 0 THEN Norm(SubSeq(a, 1, Len(a) - 1))
    ELSE a

RECURSIVE FromNat(_)
FromNat(n) == IF n = 0 THEN <<>> ELSE <<n % Base>> \o FromNat(n \div Base)

RECURSIVE ToNat(_)
ToNat(a) == IF a = <<>> THEN 0 ELSE Head(a) + Base * ToNat(Tail(a))

\* a * m + c for a small factor m
RECURSIVE MulSmall(_, _, _)
MulSmall(a, m, c) ==
    IF a = <<>>
    THEN IF c = 0 THEN <<>> ELSE <<c % Base>> \o MulSmall(<<>>, m, c \div Base)
    ELSE LET t == Head(a) * m + c
         IN  <<t % Base>> \o MulSmall(Tail(a), m, t \div Base)

RECURSIVE AddBig(_, _, _)
AddBig(a, b, c) ==
    IF a = <<>> /\ b = <<>>
    THEN IF c = 0 THEN <<>> ELSE <<c>>
    ELSE LET x == IF a = <<>> THEN 0 ELSE Head(a)
             y == IF b = <<>> THEN 0 ELSE Head(b)
             t == x + y + c
         IN  <<t % Base>> \o AddBig(IF a = <<>> THEN <<>> ELSE Tail(a),
                                    IF b = <<>> THEN <<>> ELSE Tail(b),
                                    t \div Base)

RECURSIVE MulBig(_, _)
MulBig(a, b) ==
    IF b = <<>> \/ a = <<>> THEN <<>>
    ELSE Norm(AddBig(MulSmall(a, Head(b), 0), <<0>> \o MulBig(a, Tail(b)), 0))

\* the value fits an unsigned integer of the given width
Fits(a, bits) == Len(a) * 8 <= bits

\* a multiplication that keeps the low 64 bits instead of reporting overflow
checked_mul_wraps(a, b) ==
    LET p == MulBig(a, b)
    IN  [some |-> TRUE,
         val |-> IF Fits(p, U64Bits) THEN p ELSE Norm(SubSeq(p, 1, U64Bits \div 8))]

\* u64::checked_mul
checked_mul(a, b) ==
    LET p == MulBig(a, b)
    IN  IF Fits(p, U64Bits) THEN [some |-> TRUE, val |-> p]
        ELSE [some |-> FALSE, val |-> <<>>]

\* u64::checked_add
checked_add(a, b) ==
    LET p == Norm(AddBig(a, b, 0))
    IN  IF Fits(p, U64Bits) THEN [some |-> TRUE, val |-> p]
        ELSE [some |-> FALSE, val |-> <<>>]

\* u64 `*` in a build without overflow checks: the low 64 bits
wrapping_mul(a, b) ==
    LET p == MulBig(a, b)
    IN  IF Fits(p, U64Bits) THEN p ELSE Norm(SubSeq(p, 1, U64Bits \div 8))

\* ------------------------------------------------------------------- text
Digits == <<"0", "1", "2", "3", "4", "5", "6", "7", "8", "9">>
UpperCase == <<"A", "B", "C", "D", "E", "F", "G", "H", "I", "J", "K", "L", "M",
               "N", "O", "P", "Q", "R", "S", "T", "U", "V", "W", "X", "Y", "Z">>
LowerCase == <<"a", "b", "c", "d", "e", "f", "g", "h", "i", "j", "k", "l", "m",
               "n", "o", "p", "q", "r", "s", "t", "u", "v", "w", "x", "y", "z">>
WhiteSpace == {" ", "\t", "\n"}

is_ascii_digit(c) == \E i \in 1..Len(Digits) : Digits[i] = c

DigitVal(c) == (CHOOSE i \in 1..Len(Digits) : Digits[i] = c) - 1

\* str::trim
RECURSIVE trim_start(_)
trim_start(s) ==
    IF s # <<>> /\ Head(s) \in WhiteSpace THEN trim_start(Tail(s)) ELSE s

RECURSIVE trim_end(_)
trim_end(s) ==
    IF s # <<>> /\ s[Len(s)] \in WhiteSpace
    THEN trim_end(SubSeq(s, 1, Len(s) - 1)) ELSE s

trim(s) == trim_end(trim_start(s))

\* str::to_lowercase
to_lowercase(s) ==
    [i \in 1..Len(s) |->
        IF \E j \in 1..Len(UpperCase) : UpperCase[j] = s[i]
        THEN LowerCase[CHOOSE j \in 1..Len(UpperCase) : UpperCase[j] = s[i]]
        ELSE s[i]]

\* s.find(|c| !c.is_ascii_digit()): index of the first non-digit, 0 for None
find_non_digit(s) ==
    IF \E i \in 1..Len(s) : ~is_ascii_digit(s[i])
    THEN CHOOSE i \in 1..Len(s) :
            /\ ~is_ascii_digit(s[i])
            /\ \A j \in 1..(i - 1) : is_ascii_digit(s[j])
    ELSE 0

\* str::parse::<u64>: empty and overflowing digit runs are errors
RECURSIVE parse_u64_from(_, _)
parse_u64_from(s, acc) ==
    IF s = <<>> THEN [ok |-> TRUE, val |-> acc]
    ELSE IF ~is_ascii_digit(Head(s)) THEN [ok |-> FALSE, val |-> <<>>]
    ELSE LET m == checked_mul(acc, FromNat(10))
             r == IF m.some THEN checked_add(m.val, FromNat(DigitVal(Head(s))))
                  ELSE m
         IN  IF r.some THEN parse_u64_from(Tail(s), r.val)
             ELSE [ok |-> FALSE, val |-> <<>>]

parse_u64(s) ==
    IF s = <<>> THEN [ok |-> FALSE, val |-> <<>>] ELSE parse_u64_from(s, <<>>)

\* ------------------------------------------------------------- config.rs
ConfigErr(why) == [ok |-> FALSE, kind |-> "Config", cause |-> why, val |-> <<>>]
Okay(v) == [ok |-> TRUE, kind |-> "none", cause |-> "none", val |-> v]

Kilo == FromNat(1024)

\* the `match suffix` table of parse_size; <<>> stands for the `_` arm
multiplier(suffix) ==
    IF suffix = <<>> THEN FromNat(1)
    ELSE IF suffix \in {<<"k">>, <<"k", "b">>} THEN Kilo
    ELSE IF suffix \in {<<"m">>, <<"m", "b">>} THEN MulBig(Kilo, Kilo)
    ELSE IF suffix \in {<<"g">>, <<"g", "b">>} THEN MulBig(MulBig(Kilo, Kilo), Kilo)
    ELSE IF suffix \in {<<"t">>, <<"t", "b">>}
         THEN MulBig(MulBig(MulBig(Kilo, Kilo), Kilo), Kilo)
    ELSE <<>>

parse_size(s, bits) ==
    LET s_trimmed == trim(s)
        s_lower == to_lowercase(s_trimmed)
        i == find_non_digit(s_lower)
        num_str == IF i = 0 THEN s_lower ELSE SubSeq(s_lower, 1, i - 1)
        suffix == IF i = 0 THEN <<>> ELSE SubSeq(s_lower, i, Len(s_lower))
        num == parse_u64(num_str)
        mult == multiplier(suffix)
        final_size == checked_mul(num.val, mult)
    IN  IF s_trimmed = <<>> THEN ConfigErr("empty")
        ELSE IF ~num.ok THEN ConfigErr("numeric")
        ELSE IF mult = <<>> THEN ConfigErr("suffix")
        ELSE IF ~final_size.some THEN ConfigErr("overflow")
        ELSE IF ~Fits(final_size.val, bits) THEN ConfigErr("arch")
        ELSE Okay(final_size.val)


\* ------------------------------------------------------------------ state
VARIABLES
    args,           \* cli.rs CopyArgs: bs, count, skip, seek, threads, verify
    usizeBits,      \* width of usize on the target platform
    pc,             \* position in run / run_singlethreaded_copy
    parsed,         \* result of parse_size(&args.bs)
    config,         \* the CopyConfig built by from_args
    result,         \* what run returns
    engine,         \* the copy engine run dispatched to
    inData,         \* content of the input resource
    inOpen,         \* input_file is open
    inOff,          \* cursor of input_file
    outFile,        \* the output resource: exists, hole (zero gap), data
    outOpen,        \* output_file is open
    outOff,         \* cursor of output_file
    buffer,         \* the reused block buffer
    bytes_read,     \* result of the last read
    blocks_copied,
    ioLog,          \* the I/O calls issued so far, with their outcome
    stdout,         \* lines printed
    hashed          \* bytes fed to a verification accumulator

vars == <<args, usizeBits, pc, parsed, config, result, engine, inData, inOpen,
          inOff, outFile, outOpen, outOff, buffer, bytes_read, blocks_copied,
          ioLog, stdout, hashed>>

\* ----------------------------------------------------------------- inputs
Bytes == {1, 2}

RECURSIVE SeqsUpTo(_, _)
SeqsUpTo(S, n) ==
    IF n = 0 THEN {<<>>}
    ELSE LET shorter == SeqsUpTo(S, n - 1)
         IN  shorter \cup {Append(q, x) : q \in shorter, x \in S}

TwoTo63 == <<0, 0, 0, 0, 0, 0, 0, 128>>
U64Max == <<255, 255, 255, 255, 255, 255, 255, 255>>

SkipValues == {FromNat(0), FromNat(1), FromNat(2), TwoTo63, <<1>> \o Tail(TwoTo63)}
SeekValues == {FromNat(0), FromNat(1), U64Max}

\* block size strings of a copy run: the small sizes and three rejected ones
BsArgs == {<<Digits[n + 1]>> : n \in 0..MaxBlock}
            \cup {<<>>, <<"0", "k">>, <<"x">>}

NoConfig == [block_size |-> <<>>, count |-> 0, skip |-> <<>>, seek |-> <<>>,
             threads |-> 0, verification_algo |-> "None"]
Running == [ok |-> TRUE, kind |-> "running", cause |-> "none", val |-> <<>>]
NotParsed == [ok |-> FALSE, kind |-> "none", cause |-> "none", val |-> <<>>]

OutFiles == {[exists |-> FALSE, hole |-> <<>>, data |-> <<>>],
             [exists |-> TRUE, hole |-> <<>>, data |-> <<9>>]}

InitRest ==
    /\ parsed = NotParsed
    /\ config = NoConfig
    /\ result = Running
    /\ engine = "none"
    /\ inOpen = FALSE
    /\ inOff = <<>>
    /\ outOpen = FALSE
    /\ outOff = <<>>
    /\ buffer = <<>>
    /\ bytes_read = 0
    /\ blocks_copied = 0
    /\ ioLog = <<>>
    /\ stdout = <<>>
    /\ hashed = <<>>

Init ==
    /\ args \in [bs : BsArgs, count : 0..MaxCount, skip : SkipValues,
                 seek : SeekValues, threads : 1..2,
                 verify : {"None", "Sha256"}]
    /\ usizeBits \in {32, 64}
    /\ inData \in SeqsUpTo(Bytes, MaxLen)
    /\ outFile \in OutFiles
    /\ pc = "from_args"
    /\ InitRest

\* ------------------------------------------------------------ bookkeeping
IoErr(op) == [ok |-> FALSE, kind |-> "Io", cause |-> op, val |-> <<>>]
Success == [ok |-> TRUE, kind |-> "none", cause |-> "none", val |-> <<>>]

\* bytes: the data a read returned or a write wrote; off: the cursor the
\* call was issued at (for a seek, its target); at: blocks_copied at the call
Logged(op, ok, bytes, off) ==
    Append(ioLog, [op |-> op, ok |-> ok, bytes |-> bytes, off |-> off,
                   at |-> blocks_copied])

\* a failed call that is recorded and then carried on from
Fail_continues(op) ==
    /\ pc' = pc
    /\ result' = result
    /\ ioLog' = Logged(op, FALSE, <<>>, <<>>)

\* `?` on a failed I/O call: run_singlethreaded_copy and run return Err(Io)
Fail(op) ==
    /\ pc' = "failed"
    /\ result' = IoErr(op)
    /\ ioLog' = Logged(op, FALSE, <<>>, <<>>)

Min(a, b) == IF a <= b THEN a ELSE b

\* lseek takes a signed 64-bit offset
BeyondI64(off) == Len(off) = 8 /\ off[8] >= 128

IsSmall(off) == Len(off) <= 2

\* bytes between the input cursor and the end of the input
Available ==
    IF IsSmall(inOff) /\ ToNat(inOff) < Len(inData)
    THEN Len(inData) - ToNat(inOff) ELSE 0

BlockSize == ToNat(config.block_size)

\* ----------------------------------------------------- config.rs, main.rs
\* a zero test that never fires
ZeroBlockSize_skipped(block_size) == FALSE

\* block_size == 0
ZeroBlockSize(block_size) == block_size = <<>>

\* CopyConfig::from_args, called from run (main.rs:61)
from_args ==
    /\ pc = "from_args"
    /\ LET block_size == parse_size(args.bs, usizeBits)
       IN  /\ parsed' = block_size
           /\ IF ~block_size.ok
              THEN /\ result' = block_size
                   /\ pc' = "failed"
                   /\ UNCHANGED config
              ELSE IF ZeroBlockSize(block_size.val)
              THEN /\ result' = ConfigErr("zero")
                   /\ pc' = "failed"
                   /\ UNCHANGED config
              ELSE /\ config' = [block_size |-> block_size.val,
                                 count |-> args.count,
                                 skip |-> args.skip,
                                 seek |-> args.seek,
                                 threads |-> args.threads,
                                 verification_algo |-> args.verify]
                   /\ pc' = "dispatch"
                   /\ UNCHANGED result
    /\ UNCHANGED <<args, usizeBits, engine, inData, inOpen, inOff, outFile,
                   outOpen, outOff, buffer, bytes_read, blocks_copied, ioLog,
                   stdout, hashed>>

\* run (main.rs:65-68): print the banner, call run_singlethreaded_copy
dispatch ==
    /\ pc = "dispatch"
    /\ stdout' = Append(stdout, "Starting copy")
    /\ engine' = "single"
    /\ pc' = "open_in"
    /\ UNCHANGED <<args, usizeBits, parsed, config, result, inData, inOpen,
                   inOff, outFile, outOpen, outOff, buffer, bytes_read,
                   blocks_copied, ioLog, hashed>>

\* ------------------------------------------------------------ core/copy.rs
\* the frame of the steps of run_singlethreaded_copy
Fixed == <<args, usizeBits, parsed, config, engine, inData, hashed>>

\* the two opens in the other order: the output is created and truncated
\* before the input is tried
open_input_after_output ==
    /\ pc = "open_in"
    /\ outOpen' = TRUE
    /\ outFile' = [exists |-> TRUE, hole |-> <<>>, data |-> <<>>]
    /\ LET opened == Logged("open_out", TRUE, <<>>, <<>>)
       IN  \/ /\ inOpen' = TRUE
              /\ ioLog' = Append(opened, [op |-> "open_in", ok |-> TRUE,
                                          bytes |-> <<>>, off |-> <<>>,
                                          at |-> blocks_copied])
              /\ pc' = "skip"
              /\ UNCHANGED result
           \/ /\ pc' = "failed"
              /\ result' = IoErr("open_in")
              /\ ioLog' = Append(opened, [op |-> "open_in", ok |-> FALSE,
                                          bytes |-> <<>>, off |-> <<>>,
                                          at |-> blocks_copied])
              /\ UNCHANGED inOpen
    /\ UNCHANGED <<Fixed, inOff, outOff, buffer, bytes_read, blocks_copied,
                   stdout>>

\* File::open(&config.input_file)?
open_input ==
    /\ pc = "open_in"
    /\ \/ /\ inOpen' = TRUE
          /\ ioLog' = Logged("open_in", TRUE, <<>>, <<>>)
          /\ pc' = "open_out"
          /\ UNCHANGED result
       \/ /\ Fail("open_in")
          /\ UNCHANGED inOpen
    /\ UNCHANGED <<Fixed, inOff, outFile, outOpen, outOff, buffer, bytes_read,
                   blocks_copied, stdout>>

\* OpenOptions::new().write(true).create(true).truncate(true).open(..)?
open_output ==
    /\ pc = "open_out"
    /\ \/ /\ outOpen' = TRUE
          /\ outFile' = [exists |-> TRUE, hole |-> <<>>, data |-> <<>>]
          /\ ioLog' = Logged("open_out", TRUE, <<>>, <<>>)
          /\ pc' = "skip"
          /\ UNCHANGED result
       \/ /\ Fail("open_out")
          /\ UNCHANGED <<outOpen, outFile>>
    /\ UNCHANGED <<Fixed, inOpen, inOff, outOff, buffer, bytes_read,
                   blocks_copied, stdout>>

\* blocks * block_size as u64, as the build evaluates `*`: a build with
\* overflow checks panics on overflow, one without keeps the low 64 bits
ByteOffsets(blocks) ==
    LET exact == MulBig(blocks, config.block_size)
    IN  IF Fits(exact, U64Bits) THEN {[panic |-> FALSE, off |-> exact]}
        ELSE {[panic |-> TRUE, off |-> <<>>],
              [panic |-> FALSE, off |-> wrapping_mul(blocks, config.block_size)]}

\* if config.skip > 0 { input_file.seek(SeekFrom::Start(skip_bytes))?; }
seek_input ==
    /\ pc = "skip"
    /\ IF config.skip = <<>>
       THEN /\ pc' = "seek"
            /\ UNCHANGED <<inOff, result, ioLog>>
       ELSE \E skip_bytes \in ByteOffsets(config.skip) :
              IF skip_bytes.panic
              THEN /\ pc' = "panicked"
                   /\ UNCHANGED <<inOff, result, ioLog>>
              ELSE \/ /\ ~BeyondI64(skip_bytes.off)
                      /\ inOff' = skip_bytes.off
                      /\ ioLog' = Logged("seek_in", TRUE, <<>>, skip_bytes.off)
                      /\ pc' = "seek"
                      /\ UNCHANGED result
                   \/ /\ Fail("seek_in")
                      /\ UNCHANGED inOff
    /\ UNCHANGED <<Fixed, inOpen, outFile, outOpen, outOff, buffer, bytes_read,
                   blocks_copied, stdout>>

\* if config.seek > 0 { output_file.seek(SeekFrom::Start(seek_bytes))?; }
\* followed by vec![0; config.block_size] and blocks_copied = 0
seek_output ==
    /\ pc = "seek"
    /\ IF config.seek = <<>>
       THEN /\ pc' = "loop"
            /\ buffer' = [i \in 1..BlockSize |-> 0]
            /\ UNCHANGED <<outOff, result, ioLog>>
       ELSE \E seek_bytes \in ByteOffsets(config.seek) :
              IF seek_bytes.panic
              THEN /\ pc' = "panicked"
                   /\ UNCHANGED <<outOff, result, ioLog, buffer>>
              ELSE \/ /\ ~BeyondI64(seek_bytes.off)
                      /\ outOff' = seek_bytes.off
                      /\ ioLog' = Logged("seek_out", TRUE, <<>>, seek_bytes.off)
                      /\ pc' = "loop"
                      /\ buffer' = [i \in 1..BlockSize |-> 0]
                      /\ UNCHANGED result
                   \/ /\ Fail("seek_out")
                      /\ UNCHANGED <<outOff, buffer>>
    /\ blocks_copied' = 0
    /\ UNCHANGED <<Fixed, inOpen, inOff, outFile, outOpen, bytes_read, stdout>>

\* an exit test that lets one block too many through
CountReached_late == config.count > 0 /\ blocks_copied > config.count

\* the loop's exit test: config.count > 0 && blocks_copied >= config.count
CountReached == config.count > 0 /\ blocks_copied >= config.count

\* the head of the loop: the count test, then input_file.read(&mut buffer)?
\* A read returns between 1 and block_size of the bytes at the cursor, and 0
\* only at the end of the input.
read_block ==
    /\ pc = "loop"
    /\ IF CountReached
       THEN /\ pc' = "flush"
            /\ UNCHANGED <<inOff, buffer, bytes_read, result, ioLog>>
       ELSE \/ /\ Fail("read")
               /\ UNCHANGED <<inOff, buffer, bytes_read>>
            \/ \E n \in 0..Min(BlockSize, Available) :
                 /\ n = 0 => Available = 0 \/ BlockSize = 0
                 /\ bytes_read' = n
                 /\ buffer' = [i \in 1..BlockSize |->
                                 IF i <= n THEN inData[ToNat(inOff) + i]
                                 ELSE buffer[i]]
                 /\ inOff' = Norm(AddBig(inOff, FromNat(n), 0))
                 /\ ioLog' = Logged("read", TRUE, SubSeq(buffer', 1, n), inOff)
                 /\ pc' = IF n = 0 THEN "flush" ELSE "write"
                 /\ UNCHANGED result
    /\ UNCHANGED <<Fixed, inOpen, outFile, outOpen, outOff, blocks_copied,
                   stdout>>

\* the whole buffer, stale remainder included
WriteSlice_whole == buffer

\* the slice handed to write_all: &buffer[..bytes_read]
WriteSlice == SubSeq(buffer, 1, bytes_read)

\* the output after `bytes` are written at the cursor; the file was truncated
\* at open, so the first write leaves the gap before the cursor as a hole
Written(bytes) ==
    IF bytes = <<>> THEN outFile
    ELSE IF outFile.data = <<>>
    THEN [exists |-> TRUE, hole |-> outOff, data |-> bytes]
    ELSE [outFile EXCEPT !.data = outFile.data \o bytes]

\* output_file.write_all(&buffer[..bytes_read])?; blocks_copied += 1;
\* a failing write_all may have written a prefix of the slice
write_block ==
    /\ pc = "write"
    /\ \/ /\ outFile' = Written(WriteSlice)
          /\ outOff' = Norm(AddBig(outOff, FromNat(Len(WriteSlice)), 0))
          /\ ioLog' = Logged("write", TRUE, WriteSlice, outOff)
          /\ blocks_copied' = blocks_copied + 1
          /\ pc' = "loop"
          /\ UNCHANGED result
       \/ \E k \in 0..(Len(WriteSlice) - 1) :
             /\ outFile' = Written(SubSeq(WriteSlice, 1, k))
             /\ outOff' = Norm(AddBig(outOff, FromNat(k), 0))
             /\ Fail("write")
             /\ UNCHANGED blocks_copied
    /\ UNCHANGED <<Fixed, inOpen, inOff, outOpen, buffer, bytes_read, stdout>>

\* a flush whose outcome is dropped
flush_unchecked ==
    /\ pc = "flush"
    /\ \E ok \in BOOLEAN : ioLog' = Logged("sync", ok, <<>>, <<>>)
    /\ stdout' = Append(stdout, "blocks copied successfully")
    /\ result' = Success
    /\ pc' = "done"
    /\ UNCHANGED <<Fixed, inOpen, inOff, outFile, outOpen, outOff, buffer,
                   bytes_read, blocks_copied>>

\* output_file.sync_all()?; println!(..); Ok(())
flush ==
    /\ pc = "flush"
    /\ \/ /\ ioLog' = Logged("sync", TRUE, <<>>, <<>>)
          /\ stdout' = Append(stdout, "blocks copied successfully")
          /\ result' = Success
          /\ pc' = "done"
       \/ /\ Fail("sync")
          /\ UNCHANGED stdout
    /\ UNCHANGED <<Fixed, inOpen, inOff, outFile, outOpen, outOff, buffer,
                   bytes_read, blocks_copied>>

Next ==
    \/ from_args
    \/ dispatch
    \/ open_input
    \/ open_output
    \/ seek_input
    \/ seek_output
    \/ read_block
    \/ write_block
    \/ flush

Spec == Init /\ [][Next]_vars

\* ------------------------------------------------- parse_size on its own
\* digit runs around the limits of u64 and of a 32-bit usize
Landmarks ==
    { <<2>>,
       <<1, 8, 4, 4, 6, 7, 4, 4, 0, 7, 3, 7, 0, 9, 5, 5, 1, 6, 1, 6>>,
       <<1, 8, 4, 4, 6, 7, 4, 4, 0, 7, 3, 7, 0, 9, 5, 5, 1, 6, 1, 5>>,
       <<1, 8, 0, 1, 4, 3, 9, 8, 5, 0, 9, 4, 8, 1, 9, 8, 4>>,
       <<1, 8, 0, 1, 4, 3, 9, 8, 5, 0, 9, 4, 8, 1, 9, 8, 3>>,
       <<1, 7, 5, 9, 2, 1, 8, 6, 0, 4, 4, 4, 1, 6>>,
       <<1, 7, 5, 9, 2, 1, 8, 6, 0, 4, 4, 4, 1, 5>>,
       <<1, 7, 1, 7, 9, 8, 6, 9, 1, 8, 4>>,
       <<1, 7, 1, 7, 9, 8, 6, 9, 1, 8, 3>>,
       <<1, 6, 7, 7, 7, 2, 1, 6>>,
       <<1, 6, 7, 7, 7, 2, 1, 5>>,
       <<4, 2, 9, 4, 9, 6, 7, 2, 9, 6>>,
       <<4, 2, 9, 4, 9, 6, 7, 2, 9, 5>>,
       <<4, 1, 9, 4, 3, 0, 4>>,
       <<4, 1, 9, 4, 3, 0, 3>>,
       <<4, 0, 9, 6>>,
       <<4, 0, 9, 5>>,
       <<4>>,
       <<3>>,
       <<9, 9, 9, 9, 9, 9, 9, 9, 9, 9, 9, 9>>,
       <<9, 9, 9, 9, 9, 9, 9, 9, 9, 9, 9, 9, 9, 9, 9, 9, 9, 9, 9, 9, 9, 9>>,
       <<5, 1, 2>> }

DigitsOf(q) == [i \in 1..Len(q) |-> Digits[q[i] + 1]]

DigitRuns == SeqsUpTo({"0", "1", "9"}, MaxDigits)
                \cup {DigitsOf(q) : q \in Landmarks}

Suffixes == SeqsUpTo({"k", "K", "b", "m", "G", "t", "x", " "}, MaxSuffix)

Oddities == {<<"1", "k", "1">>, <<"+", "1">>, <<"-", "1">>,
             <<"1", ".", "5", "k">>, <<"\t", "2", "G", "b", "\n">>,
             <<"1", "T", "B">>, <<"3", "M", "B">>, <<" ", " ">>,
             DigitsOf(<<9, 9, 9, 9, 9, 9, 9, 9, 9, 9, 9, 9>>) \o <<"T">>}

SizeStrings ==
    {lead \o d \o suf : lead \in {<<>>, <<" ">>}, d \in DigitRuns,
                        suf \in Suffixes} \cup Oddities

InitParse ==
    /\ args \in [bs : SizeStrings, count : {0}, skip : {<<>>}, seek : {<<>>},
                 threads : {1}, verify : {"None"}]
    /\ usizeBits \in {32, 64}
    /\ inData = <<>>
    /\ outFile = [exists |-> FALSE, hole |-> <<>>, data |-> <<>>]
    /\ pc = "parse"
    /\ InitRest

\* parse_size(&args.bs)
parse_size_call ==
    /\ pc = "parse"
    /\ parsed' = parse_size(args.bs, usizeBits)
    /\ pc' = "parsed"
    /\ UNCHANGED <<args, usizeBits, config, result, engine, inData, inOpen,
                   inOff, outFile, outOpen, outOff, buffer, bytes_read,
                   blocks_copied, ioLog, stdout, hashed>>

NextParse == parse_size_call

SpecParse == InitParse /\ [][NextParse]_vars

\* ---------------------------------------------- decimal reference numbers
\* A decimal number is the sequence of its digits, least significant first,
\* without leading zeros.
RECURSIVE Reverse(_)
Reverse(q) == IF q = <<>> THEN <<>> ELSE Append(Reverse(Tail(q)), Head(q))

DecOf(digitChars) == Norm(Reverse([i \in 1..Len(digitChars) |-> DigitVal(digitChars[i])]))

RECURSIVE DecTimes(_, _, _)
DecTimes(d, m, c) ==
    IF d = <<>>
    THEN IF c = 0 THEN <<>> ELSE <<c % 10>> \o DecTimes(<<>>, m, c \div 10)
    ELSE LET t == Head(d) * m + c
         IN  <<t % 10>> \o DecTimes(Tail(d), m, t \div 10)

RECURSIVE DecTimesKilo(_, _)
DecTimesKilo(d, power) ==
    IF power = 0 THEN d ELSE DecTimesKilo(DecTimes(d, 1024, 0), power - 1)

RECURSIVE DecLessFrom(_, _, _)
DecLessFrom(a, b, i) ==
    IF i = 0 THEN FALSE
    ELSE IF a[i] # b[i] THEN a[i] < b[i]
    ELSE DecLessFrom(a, b, i - 1)

DecLess(a, b) ==
    IF Len(a) # Len(b) THEN Len(a) < Len(b) ELSE DecLessFrom(a, b, Len(a))

\* quotient and remainder of a limb number by 10, most significant limb first
RECURSIVE DivTen(_, _)
DivTen(a, rem) ==
    IF a = <<>> THEN [q |-> <<>>, r |-> rem]
    ELSE LET t == rem * Base + a[Len(a)]
             rest == DivTen(SubSeq(a, 1, Len(a) - 1), t % 10)
         IN  [q |-> Append(rest.q, t \div 10), r |-> rest.r]

RECURSIVE ToDec(_)
ToDec(a) ==
    IF a = <<>> THEN <<>>
    ELSE LET d == DivTen(a, 0) IN <<d.r>> \o ToDec(Norm(d.q))

TwoTo64Dec == DecOf(DigitsOf(<<1, 8, 4, 4, 6, 7, 4, 4, 0, 7, 3, 7, 0, 9, 5, 5, 1, 6, 1, 6>>))
TwoTo32Dec == DecOf(DigitsOf(<<4, 2, 9, 4, 9, 6, 7, 2, 9, 6>>))

CaseEq(c, lower) ==
    \E j \in 1..Len(LowerCase) :
        LowerCase[j] = lower /\ c \in {LowerCase[j], UpperCase[j]}

\* the power of 1024 a suffix stands for, -1 when it is not a suffix
SuffixPower(suf) ==
    LET unit(c) == IF CaseEq(c, "k") THEN 1 ELSE IF CaseEq(c, "m") THEN 2
                   ELSE IF CaseEq(c, "g") THEN 3 ELSE IF CaseEq(c, "t") THEN 4
                   ELSE -1
    IN  IF suf = <<>> THEN 0
        ELSE IF Len(suf) = 1 THEN unit(suf[1])
        ELSE IF Len(suf) = 2 /\ CaseEq(suf[2], "b") THEN unit(suf[1])
        ELSE -1

\* the ways to read s as whitespace, digits, suffix, whitespace
Readings(s) ==
    {r \in [a : 0..Len(s), b : 0..Len(s), c : 0..Len(s)] :
        /\ r.a < r.b /\ r.b <= r.c
        /\ \A i \in 1..r.a : s[i] \in WhiteSpace
        /\ \A i \in (r.a + 1)..r.b : is_ascii_digit(s[i])
        /\ SuffixPower(SubSeq(s, r.b + 1, r.c)) >= 0
        /\ \A i \in (r.c + 1)..Len(s) : s[i] \in WhiteSpace}

\* digits x multiplier of a reading, in decimal
Product(s, r) ==
    DecTimesKilo(DecOf(SubSeq(s, r.a + 1, r.b)),
                 SuffixPower(SubSeq(s, r.b + 1, r.c)))

\* ------------------------------------------------------------------ claims
UsizeLimitDec == IF usizeBits = 32 THEN TwoTo32Dec ELSE TwoTo64Dec

InRange(p) == DecLess(p, TwoTo64Dec) /\ DecLess(p, UsizeLimitDec)

\* C7: parse_size returns exactly digits x multiplier for every string
\* <digits><suffix> (any case, surrounding whitespace ignored) whose product
\* fits u64 and usize, and a Configuration error for every other string and
\* for every product that does not fit; "2G" gives 2147483648 and
\* "999999999999T" an overflow Configuration error.
C7_ParseSizeExact ==
    pc = "parsed" =>
        LET s == args.bs
            R == Readings(s)
        IN  /\ IF R # {} /\ \A r \in R : InRange(Product(s, r))
               THEN /\ parsed.ok
                    /\ \A r \in R : ToDec(parsed.val) = Product(s, r)
               ELSE /\ ~parsed.ok
                    /\ parsed.kind = "Config"
            /\ s = <<"2", "G">> => parsed.ok /\ ToDec(parsed.val) = <<8, 4, 6, 3, 8, 4, 7, 4, 1, 2>>
            /\ s = <<"9", "9", "9", "9", "9", "9", "9", "9", "9", "9", "9", "9", "T">> => ~parsed.ok /\ parsed.cause = "overflow"

C7_Witness ==
    /\ pc = "parsed"
    /\ args.bs = <<" ", "2", "G">>
    /\ usizeBits = 64
    /\ parsed.ok
    /\ ToDec(parsed.val) = <<8, 4, 6, 3, 8, 4, 7, 4, 1, 2>>

\* what the I/O log says
RECURSIVE Concat(_)
Concat(log) == IF log = <<>> THEN <<>> ELSE Head(log).bytes \o Concat(Tail(log))

Calls(op) == SelectSeq(ioLog, LAMBDA e : e.op = op /\ e.ok)

IsPrefix(a, b) == Len(a) <= Len(b) /\ a = SubSeq(b, 1, Len(a))

\* the input from a byte offset to its end
InputFrom(off) ==
    IF IsSmall(off) /\ ToNat(off) <= Len(inData)
    THEN SubSeq(inData, ToNat(off) + 1, Len(inData)) ELSE <<>>

Reported == \E i \in 1..Len(stdout) : stdout[i] = "blocks copied successfully"

\* C1: after a successful run with seek = 0 the output is exactly the bytes
\* the reads returned, which are the input bytes from offset
\* skip x block_size on; every write carries the bytes of the read just
\* before it, and no byte before the skip offset is in the output.
C1_OutputIsInputFromSkip ==
    pc = "done" /\ config.seek = <<>> =>
        /\ outFile.hole = <<>>
        /\ outFile.data = Concat(Calls("read"))
        /\ IsPrefix(outFile.data,
                    InputFrom(MulBig(config.skip, config.block_size)))
        /\ \A i \in 1..Len(ioLog) :
              ioLog[i].op = "write" =>
                  /\ i > 1
                  /\ ioLog[i - 1].op = "read"
                  /\ ioLog[i - 1].bytes = ioLog[i].bytes

\* C2: success (Ok and the blocks-copied line) is reported only after
\* sync_all was issued after the last write and succeeded; a failed flush
\* ends the run with that error and no success report.
C2_SuccessAfterFlush ==
    /\ result = Success \/ Reported =>
          /\ ioLog # <<>>
          /\ ioLog[Len(ioLog)].op = "sync"
          /\ ioLog[Len(ioLog)].ok
    /\ \A i \in 1..Len(ioLog) :
          ioLog[i].op = "sync" /\ ~ioLog[i].ok =>
              result = IoErr("sync") /\ ~Reported /\ pc = "failed"

C2_Witness ==
    /\ pc = "done"
    /\ result = Success
    /\ Len(Calls("write")) = 2
    /\ ioLog[Len(ioLog)].op = "sync"

\* C3: the byte offsets the cursors are positioned at are the exact products
\* skip x block_size and seek x block_size; the multiplication never
\* overflows or wraps.
C3_OffsetsExact ==
    /\ pc # "panicked"
    /\ \A i \in 1..Len(ioLog) :
          /\ ioLog[i].op = "seek_in" /\ ioLog[i].ok =>
                ioLog[i].off = MulBig(config.skip, config.block_size)
          /\ ioLog[i].op = "seek_out" /\ ioLog[i].ok =>
                ioLog[i].off = MulBig(config.seek, config.block_size)

\* C4: a block size string that parses to 0 gives a Configuration error and
\* the run ends before any file is opened: the input is not opened, the
\* output neither created nor truncated.
C4_ZeroBlockSizeNoIO ==
    parsed.ok /\ parsed.val = <<>> =>
        /\ pc = "failed"
        /\ result.kind = "Config"
        /\ ~result.ok
        /\ ioLog = <<>>
        /\ ~inOpen /\ ~outOpen
        /\ outFile \in OutFiles
        /\ engine = "none"

C4_Witness ==
    /\ args.bs = <<"0", "k">>
    /\ parsed.ok /\ parsed.val = <<>>
    /\ pc = "failed"
    /\ outFile.data = <<9>>

\* C5: with count > 0, blocks_copied <= count and no read or write is issued
\* once blocks_copied has reached count; with count = 0 the loop stops only
\* on a read of zero bytes.  Both stops are success, not errors.
C5_CountBound ==
    /\ config.count > 0 =>
          /\ blocks_copied <= config.count
          /\ \A i \in 1..Len(ioLog) :
                ioLog[i].op \in {"read", "write"} => ioLog[i].at < config.count
    /\ pc \in {"flush", "done"} =>
          /\ result.ok
          /\ \/ config.count > 0 /\ blocks_copied = config.count
             \/ /\ Calls("read") # <<>>
                /\ Calls("read")[Len(Calls("read"))].bytes = <<>>
                /\ ioLog[Len(ioLog)].op \in {"read", "sync"}

C5_Witness ==
    /\ pc = "done"
    /\ config.count = 2
    /\ blocks_copied = 2
    /\ Available > 0
    /\ Len(Calls("read")) = 2

\* C6: an I/O failure (open, seek, read, write, flush) ends the run at once
\* with an I/O error carrying the cause: nothing is read, written or flushed
\* after it, the call is not repeated and success is not reported.
C6_IoFailureEndsRun ==
    \A i \in 1..Len(ioLog) :
        ~ioLog[i].ok =>
            /\ i = Len(ioLog)
            /\ pc = "failed"
            /\ result = IoErr(ioLog[i].op)
            /\ ~Reported

C6_Witness ==
    /\ pc = "failed"
    /\ Len(Calls("write")) = 1
    /\ ioLog[Len(ioLog)].op = "write"
    /\ ~ioLog[Len(ioLog)].ok
    /\ result = IoErr("write")

\* C8: with thread_count > 1 the job runs on the sharded engine (one worker
\* per contiguous block range), with thread_count = 1 on the single-path one.
C8_ShardedWhenThreads ==
    engine # "none" =>
        engine = (IF config.threads > 1 THEN "sharded" ELSE "single")

\* C9: when a verification algorithm is requested, the bytes fed to the
\* accumulator are exactly the bytes written, in the order of the writes.
C9_DigestCoversWrites ==
    config.verification_algo # "None" => hashed = Concat(Calls("write"))

Ceil(n, d) == (n + d - 1) \div d

PlainCopyDone ==
    /\ pc = "done"
    /\ config.count = 0
    /\ config.skip = <<>>
    /\ config.seek = <<>>

\* every read filled the buffer as far as the input allowed
ReadsFill ==
    \A i \in 1..Len(ioLog) :
        ioLog[i].op = "read" /\ ioLog[i].ok =>
            Len(ioLog[i].bytes)
                = Min(BlockSize, Len(inData) - ToNat(ioLog[i].off))

AllButLastFull ==
    \A i \in 1..(Len(Calls("write")) - 1) :
        Len(Calls("write")[i].bytes) = BlockSize

\* C10 as stated: an input of L bytes copied with count = 0, skip = 0 and
\* seek = 0 ends with L bytes in the output and blocks_copied equal to
\* ceil(L / block_size), every block but the last being full.
C10_BlocksAreCeil ==
    PlainCopyDone =>
        /\ outFile.hole = <<>>
        /\ Len(outFile.data) = Len(inData)
        /\ blocks_copied = Ceil(Len(inData), BlockSize)
        /\ AllButLastFull

\* C10 amended: an input of L bytes copied with count = 0, skip = 0 and
\* seek = 0 ends with the output holding exactly the L input bytes and
\* blocks_copied between ceil(L / block_size) and L; when every read returns
\* min(block_size, bytes left), blocks_copied is ceil(L / block_size) and
\* every block but the last is full.
C10_BlocksWhenReadsFill ==
    PlainCopyDone =>
        /\ outFile.hole = <<>>
        /\ outFile.data = inData
        /\ blocks_copied = Len(Calls("write"))
        /\ Ceil(Len(inData), BlockSize) <= blocks_copied
        /\ blocks_copied <= Len(inData)
        /\ ReadsFill =>
              /\ blocks_copied = Ceil(Len(inData), BlockSize)
              /\ AllButLastFull

C10_Witness ==
    /\ PlainCopyDone
    /\ ReadsFill
    /\ Len(inData) = 3
    /\ BlockSize = 2
    /\ blocks_copied = 2
    /\ Len(Calls("write")[2].bytes) = 1

\* C11: the input is opened before the output, so when opening the input
\* fails the run ends with an I/O error and the output is left as it was:
\* not created when absent, not truncated when present.
C11_InputOpenedFirst ==
    /\ \A i \in 1..Len(ioLog) :
          ioLog[i].op = "open_out" =>
              \E j \in 1..(i - 1) : ioLog[j].op = "open_in" /\ ioLog[j].ok
    /\ outOpen \/ outFile \notin OutFiles => inOpen
    /\ \A i \in 1..Len(ioLog) :
          ioLog[i].op = "open_in" /\ ~ioLog[i].ok =>
              /\ pc = "failed"
              /\ result = IoErr("open_in")
              /\ ~outOpen
              /\ outFile \in OutFiles

C11_Witness ==
    /\ pc = "failed"
    /\ ioLog = <<[op |-> "open_in", ok |-> FALSE, bytes |-> <<>>,
                  off |-> <<>>, at |-> 0]>>
    /\ result = IoErr("open_in")
    /\ outFile = [exists |-> TRUE, hole |-> <<>>, data |-> <<9>>]

====
